---- MODULE Spec2Model ----
(***************************************************************************)
(* Model of super_veille_flights.py: the rate-limit aware Amadeus client,  *)
(* the offer evaluator, the ranking, and the run_once orchestrator with    *)
(* its alert derivation and the Discord notifier.                          *)
(*                                                                         *)
(* Money is counted in cents and durations in minutes, so that the         *)
(* comparisons of the source (<= 650.0, < 25 hours, round(.., 1)) are     *)
(* exact integer comparisons.                                              *)
(***************************************************************************)
EXTENDS Integers, Sequences, FiniteSets, TLC

\* ------------------------------------------------------------------------
\* Bounds of the model
\* ------------------------------------------------------------------------

\* token POSTs one _safe_get call may make (a token endpoint that keeps
\* answering without an access_token would otherwise be asked for ever)
MaxPosts == 2

\* ------------------------------------------------------------------------
\* Amadeus client: _auth, _headers, _safe_get
\* ------------------------------------------------------------------------

\* Python's None
Null == "None"

\* default of the max_retries parameter of _safe_get
max_retries == 6

\* ceiling of the backoff, in seconds
BackoffCap == 60

Min(a, b) == IF a <= b THEN a ELSE b

Max(a, b) == IF a >= b THEN a ELSE b

RECURSIVE Pow2(_)
Pow2(n) == IF n = 0 THEN 1 ELSE 2 * Pow2(n - 1)

\* HTTP statuses the server answers a GET with
Statuses == {200, 401, 429, 500}

\* Retry-After header of a response: absent, the empty string, a text that
\* int() rejects (an HTTP date), or the decimal text of an integer
RetryAfters ==
    {[kind |-> "absent"], [kind |-> "empty"], [kind |-> "text"]}
        \cup {[kind |-> "int", n |-> n] : n \in {-1, 7, 61}}

\* what the token endpoint answers: an access_token, a body without one
\* (r.json().get gives None), or an error status (raise_for_status raises)
AuthAnswers == {"tokB", Null, "error"}

\* faulty variant: only server errors raise
RaisesForStatusServerOnly(status) == status >= 500 /\ status < 600

\* requests.Response.raise_for_status raises for 4xx and 5xx
RaisesForStatus(status) == status >= 400 /\ status < 600

\* faulty variant: the cached token is never reused
TokenMissingAlways(tok) == TRUE

\* `if not self._token`
TokenMissing(tok) == tok = Null

\* faulty variant: one retry too many
RetriesExhaustedLate(att, maxr) == att > maxr + 1

\* `if attempt > max_retries`
RetriesExhausted(att, maxr) == att > maxr

\* faulty variant: the ceiling is forgotten
WaitSUncapped(retry_after, att) ==
    IF retry_after.kind = "int" THEN retry_after.n ELSE Pow2(att)

\* wait_s of lines 145-149
WaitS(retry_after, att) ==
    IF retry_after.kind = "int"
        THEN Min(BackoffCap, retry_after.n)
        ELSE Min(BackoffCap, Pow2(att))

\* time.sleep raises ValueError for a negative length
SleepRaises(wait_s) == wait_s < 0

\* ------------------------------------------------------------------------
\* parse_duration_hours: texts are sequences of characters, the result is
\* in minutes (h + m/60.0 hours is h*60 + m minutes)
\* ------------------------------------------------------------------------

Digits == <<"0", "1", "2", "3", "4", "5", "6", "7", "8", "9">>

IsDigit(c) == \E i \in 1..10 : Digits[i] = c

DigitVal(c) == (CHOOSE i \in 1..10 : Digits[i] = c) - 1

\* str.lower on the characters used
Lower(c) ==
    CASE c = "P" -> "p" [] c = "T" -> "t" [] c = "H" -> "h"
      [] c = "M" -> "m" [] c = "D" -> "d" [] c = "S" -> "s"
      [] OTHER -> c

LowerAll(s) == [i \in 1..Len(s) |-> Lower(s[i])]

StartsWithPT(s) == Len(s) >= 2 /\ s[1] = "P" /\ s[2] = "T"

\* iso.replace("PT", "")
RECURSIVE RemovePT(_)
RemovePT(s) ==
    IF s = <<>> THEN <<>>
    ELSE IF StartsWithPT(s) THEN RemovePT(SubSeq(s, 3, Len(s)))
    ELSE <<Head(s)>> \o RemovePT(Tail(s))

Contains(s, c) == \E i \in 1..Len(s) : s[i] = c

\* s.split(c)[0]
BeforeFirst(s, c) ==
    IF Contains(s, c)
        THEN SubSeq(s, 1, (CHOOSE i \in 1..Len(s) :
                              s[i] = c /\ \A j \in 1..(i - 1) : s[j] # c) - 1)
        ELSE s

\* what follows the first c in s
AfterFirst(s, c) ==
    IF Contains(s, c)
        THEN SubSeq(s, (CHOOSE i \in 1..Len(s) :
                           s[i] = c /\ \A j \in 1..(i - 1) : s[j] # c) + 1, Len(s))
        ELSE <<>>

\* s.split(c)[1], for s containing c
SecondPart(s, c) == BeforeFirst(AfterFirst(s, c), c)

\* s.replace(c, "")
RECURSIVE RemoveAll(_, _)
RemoveAll(s, c) ==
    IF s = <<>> THEN <<>>
    ELSE IF Head(s) = c THEN RemoveAll(Tail(s), c)
    ELSE <<Head(s)>> \o RemoveAll(Tail(s), c)

RECURSIVE DecimalValue(_, _)
DecimalValue(s, acc) ==
    IF s = <<>> THEN acc
    ELSE DecimalValue(Tail(s), 10 * acc + DigitVal(Head(s)))

\* float(s) on a text of decimal digits: [err, v], err when float()
\* raises ValueError
Float(s) ==
    IF s # <<>> /\ \A i \in 1..Len(s) : IsDigit(s[i])
        THEN [err |-> FALSE, v |-> DecimalValue(s, 0)]
        ELSE [err |-> TRUE, v |-> 0]

\* `float(s) if s else 0.0` and `float(s or 0)`
FloatOrZero(s) == IF s = <<>> THEN [err |-> FALSE, v |-> 0] ELSE Float(s)

\* parse_duration_hours: [err, v] with v in minutes, err when float()
\* raises ValueError
parse_duration_hours(iso) ==
    IF iso = <<>> \/ ~StartsWithPT(iso) THEN [err |-> FALSE, v |-> 0]
    ELSE LET low == LowerAll(RemovePT(iso))
         IN IF Contains(low, "h")
              THEN LET h == FloatOrZero(BeforeFirst(low, "h"))
                       tail == SecondPart(low, "h")
                   IN IF h.err THEN h
                      ELSE IF Contains(tail, "m")
                        THEN LET m == FloatOrZero(BeforeFirst(tail, "m"))
                             IN [err |-> m.err, v |-> h.v * 60 + m.v]
                        ELSE [err |-> FALSE, v |-> h.v * 60]
            ELSE IF Contains(low, "m")
              THEN FloatOrZero(RemoveAll(low, "m"))
            ELSE [err |-> FALSE, v |-> 0]

\* ------------------------------------------------------------------------
\* offer_meets_rules
\* ------------------------------------------------------------------------

MAX_STOPS == 1

MAX_DURATION_HOURS == 25

BAGGAGE_REQUIRED == TRUE

PremiumCodes == {"AF", "KL", "AY", "NH", "JL", "QR", "SQ", "CX", "LH", "LX"}

\* the placeholder layover of 1.5 h, in minutes
LayoverPlaceholder == 90

\* itin.get("duration", "PT0H"): a missing key reads as "PT0H"
DurationOf(itin) ==
    IF itin.has_duration THEN itin.duration ELSE <<"P", "T", "0", "H">>

\* the loop over the itineraries (lines 182-188), folded left to right;
\* acc.err records that parse_duration_hours raised
RECURSIVE ItinLoop(_, _)
ItinLoop(its, acc) ==
    IF its = <<>> \/ acc.err THEN acc
    ELSE LET itin == Head(its)
             n == Len(itin.segments)
             stops == Max(acc.max_stops, Max(0, n - 1))
             d == parse_duration_hours(DurationOf(itin))
         IN IF d.err
              THEN [acc EXCEPT !.err = TRUE, !.max_stops = stops]
              ELSE ItinLoop(Tail(its),
                     [err |-> FALSE,
                      max_stops |-> stops,
                      total_h |-> acc.total_h + d.v,
                      layovers |-> IF n > 1
                                     THEN Append(acc.layovers, LayoverPlaceholder)
                                     ELSE acc.layovers])

\* `isinstance(inc, dict) and (inc.get("quantity") or 0) > 0`; inc is the
\* includedCheckedBags of a fare detail: is_dict is false when the key is
\* missing, has_quantity is false for an allowance given by weight only
BagCounts(inc) ==
    /\ inc.is_dict
    /\ (IF inc.has_quantity THEN inc.quantity ELSE 0) > 0

\* the loops of lines 190-195
BagIncluded(travelerPricings) ==
    \E t \in 1..Len(travelerPricings) :
        \E f \in 1..Len(travelerPricings[t]) :
            BagCounts(travelerPricings[t][f])

IsPremium(codes) == \E i \in 1..Len(codes) : codes[i] \in PremiumCodes

ZeroMetrics ==
    [total_hours |-> 0, stops |-> 0, bag_included |-> FALSE,
     premium |-> FALSE, layovers |-> <<>>]

\* faulty variant: the stop rule compares with < instead of <=
RulesOkStrictStops(max_stops, total_h, bag_included) ==
    /\ max_stops < MAX_STOPS
    /\ total_h < MAX_DURATION_HOURS * 60
    /\ (~BAGGAGE_REQUIRED) \/ bag_included

\* line 198
RulesOk(max_stops, total_h, bag_included) ==
    /\ max_stops <= MAX_STOPS
    /\ total_h < MAX_DURATION_HOURS * 60
    /\ (~BAGGAGE_REQUIRED) \/ bag_included

\* offer_meets_rules: the pair (ok, metrics)
offer_meets_rules(offer) ==
    LET r == ItinLoop(offer.itineraries,
                 [err |-> FALSE, max_stops |-> 0, total_h |-> 0, layovers |-> <<>>])
    IN IF r.err
         THEN [ok |-> FALSE, metrics |-> ZeroMetrics]
         ELSE LET bag == BagIncluded(offer.travelerPricings)
              IN [ok |-> RulesOk(r.max_stops, r.total_h, bag),
                  metrics |-> [total_hours |-> r.total_h,
                               stops |-> r.max_stops,
                               bag_included |-> bag,
                               premium |-> IsPremium(offer.validatingAirlineCodes),
                               layovers |-> r.layovers]]

\* ------------------------------------------------------------------------
\* get_price, pick_top3, compact
\* ------------------------------------------------------------------------

\* An amount of money is e9 * 10^9 euros plus c cents: the default 1e9 of
\* get_price, and sums with it, stay exact and apart from the real prices.
Money(e9, c) == [e9 |-> e9, c |-> c]

Euros(n) == Money(0, n * 100)

MoneyLess(a, b) == a.e9 < b.e9 \/ (a.e9 = b.e9 /\ a.c < b.c)

MoneyLeq(a, b) == a = b \/ MoneyLess(a, b)

MoneyAdd(a, b) == Money(a.e9 + b.e9, a.c + b.c)

\* the default of get_price, 1e9
Billion == Money(1, 0)

\* get_price: price.total is a decimal text (kind "num", in cents), is
\* missing (the default 1e9 is read), or is a text float() rejects
\* (ValueError, caught: 1e9)
get_price(o) ==
    IF o.price.kind = "num" THEN Money(0, o.price.cents) ELSE Billion

\* faulty variant: an element is put before those of equal key
InsertBeforeEqual(sorted, x) ==
    LET n == Cardinality({i \in 1..Len(sorted) : MoneyLess(sorted[i].key, x.key)})
    IN SubSeq(sorted, 1, n) \o <<x>> \o SubSeq(sorted, n + 1, Len(sorted))

\* where sorted() puts one more element: after every element that is not
\* greater (the sort is stable)
InsertByKey(sorted, x) ==
    LET n == Cardinality({i \in 1..Len(sorted) : MoneyLeq(sorted[i].key, x.key)})
    IN SubSeq(sorted, 1, n) \o <<x>> \o SubSeq(sorted, n + 1, Len(sorted))

\* sorted(keyed, key=...) on a list of [key, val]
RECURSIVE SortedByKey(_)
SortedByKey(keyed) ==
    IF keyed = <<>> THEN <<>>
    ELSE InsertByKey(SortedByKey(SubSeq(keyed, 1, Len(keyed) - 1)),
                     keyed[Len(keyed)])

\* s[:3]
FirstThree(s) == SubSeq(s, 1, Min(3, Len(s)))

Vals(keyed) == [i \in 1..Len(keyed) |-> keyed[i].val]

\* pick_top3: sorted(offers, key=get_price)[:3]
pick_top3(offers) ==
    FirstThree(Vals(SortedByKey(
        [i \in 1..Len(offers) |-> [key |-> get_price(offers[i]), val |-> offers[i]]])))

\* line 285: sorted(valid_cebu_combo, key=lambda x: x.get("total", 1e9))[:3]
top3_of_combos(combos) ==
    FirstThree(Vals(SortedByKey(
        [i \in 1..Len(combos) |-> [key |-> combos[i].total, val |-> combos[i]]])))

\* round(total_hours, 1), from minutes to tenths of an hour (the durations
\* of the model are never halfway between two tenths)
RoundTenths(minutes) == (minutes * 10 + 30) \div 60

\* compact: price is price.total as received (a text, or None when the
\* key is missing), carriers stands for the joined codes
compact(o, m) ==
    [price |-> o.price,
     currency |-> o.currency,
     carriers |-> o.validatingAirlineCodes,
     stops |-> m.stops,
     hours |-> RoundTenths(m.total_hours),
     bag_included |-> m.bag_included,
     premium |-> m.premium]

\* ------------------------------------------------------------------------
\* Dates (day of the year 2026: 1 is January 1st, 91 is April 1st)
\* ------------------------------------------------------------------------

\* number of days of the departure window, DEPART_WINDOW_START being day 1
\* (15 in the source) and of the Osaka -> Cebu window from April 1st (15)
DepartWindowDays == 1

CebuWindowDays == 1

DEPART_WINDOW_START == 1

DEPART_WINDOW_END == DEPART_WINDOW_START + DepartWindowDays - 1

April1 == 91

April15 == 105

\* daterange(start, end), both ends included
daterange(start, end) == [n \in 1..(end - start + 1) |-> start + n - 1]

\* generate_paris_osaka_exact90_pairs
generate_paris_osaka_exact90_pairs ==
    LET all == [n \in 1..Len(daterange(DEPART_WINDOW_START, DEPART_WINDOW_END)) |->
                  <<daterange(DEPART_WINDOW_START, DEPART_WINDOW_END)[n],
                    daterange(DEPART_WINDOW_START, DEPART_WINDOW_END)[n] + 90>>]
        Keep(pr) == April1 <= pr[2] /\ pr[2] <= April15
    IN SelectSeq(all, Keep)

PARIS_AIRPORTS == <<"CDG", "ORY">>

OSAKA_AIRPORTS == <<"KIX", "ITM", "UKB">>

CEBU_AIRPORT == "CEB"

\* ------------------------------------------------------------------------
\* Alerts
\* ------------------------------------------------------------------------

THRESHOLD_MAIN == 650

EXCEPTION_MIN == 651

EXCEPTION_MAX == 700

\* the margin of the combo alert, in euros
ComboMargin == 300

\* faulty variant: the duration band is taken exclusive of 18 h
ExceptionalItineraryStrict(duration_tenths, layovers, premium) ==
    \/ 150 <= duration_tenths /\ duration_tenths < 180
    \/ \E i \in 1..Len(layovers) : 45 <= layovers[i] /\ layovers[i] <= 150
    \/ premium

\* exceptional_itinerary: the duration in tenths of an hour, the layovers
\* in minutes (0.75 h = 45, 2.5 h = 150)
exceptional_itinerary(duration_tenths, layovers, premium) ==
    \/ 150 <= duration_tenths /\ duration_tenths <= 180
    \/ \E i \in 1..Len(layovers) : 45 <= layovers[i] /\ layovers[i] <= 150
    \/ premium

\* faulty variant: the failure of the webhook POST is not caught
PostFailureEscapes == FALSE

\* `except Exception` around the webhook POST (lines 326-329)
PostFailureCaught == TRUE

NoAlert == [fired |-> FALSE]

\* float(best.get("price", 1e9)) of a compacted offer: the key is always
\* there, so the default is never read; None raises TypeError and a text
\* that is no number raises ValueError
FloatOfPrice(price) ==
    CASE price.kind = "num" -> [err |-> Null, v |-> Money(0, price.cents)]
      [] price.kind = "missing" -> [err |-> "TypeError", v |-> Billion]
      [] OTHER -> [err |-> "ValueError", v |-> Billion]

\* lines 289-295, for a best offer whose price float() accepts
OsakaAlert(top3_o) ==
    IF top3_o = <<>> THEN NoAlert
    ELSE LET best == top3_o[1]
             price == FloatOfPrice(best.price).v
         IN IF MoneyLeq(price, Euros(THRESHOLD_MAIN))
              THEN [fired |-> TRUE, reason |-> "<=650", best |-> best]
            ELSE IF /\ MoneyLeq(Euros(EXCEPTION_MIN), price)
                    /\ MoneyLeq(price, Euros(EXCEPTION_MAX))
                    /\ exceptional_itinerary(best.hours, <<>>, best.premium)
              THEN [fired |-> TRUE, reason |-> "651-700 exceptionnel", best |-> best]
            ELSE NoAlert

\* faulty variant: the comparison with the reference is not strict
ComboAlertLeq(top3_c, top3_o) ==
    IF top3_c # <<>> /\ top3_o # <<>>
        THEN LET ref == MoneyAdd(FloatOfPrice(top3_o[1].price).v, Euros(ComboMargin))
             IN IF MoneyLeq(top3_c[1].total, ref)
                  THEN [fired |-> TRUE, best |-> top3_c[1], vs_ref |-> ref]
                  ELSE NoAlert
        ELSE NoAlert

\* lines 297-300
ComboAlert(top3_c, top3_o) ==
    IF top3_c # <<>> /\ top3_o # <<>>
        THEN LET ref == MoneyAdd(FloatOfPrice(top3_o[1].price).v, Euros(ComboMargin))
             IN IF MoneyLess(top3_c[1].total, ref)
                  THEN [fired |-> TRUE, best |-> top3_c[1], vs_ref |-> ref]
                  ELSE NoAlert
        ELSE NoAlert

\* the exception the alert derivation raises, Null when it raises none
AlertsError(top3_o) ==
    IF top3_o = <<>> THEN Null ELSE FloatOfPrice(top3_o[1].price).err

\* one combination of a passing Osaka -> Cebu leg with a passing
\* Cebu -> Paris leg (lines 276-283); round(total, 2) is exact in cents
Combo(a, b, d_osaceb, d_cebpar) ==
    [total |-> MoneyAdd(get_price(a), get_price(b)),
     currency |-> a.currency,
     osa_ceb |-> compact(a, a.metrics),
     ceb_par |-> compact(b, b.metrics),
     dates |-> [osa_ceb |-> d_osaceb, ceb_par |-> d_cebpar]]

\* the two nested loops of lines 274-283: for a, for b, in that order
Combos(as, bs, d_osaceb, d_cebpar) ==
    [k \in 1..(Len(as) * Len(bs)) |->
        Combo(as[((k - 1) \div Len(bs)) + 1], bs[((k - 1) % Len(bs)) + 1],
              d_osaceb, d_cebpar)]

\* the loop over the offers of one response (lines 242-246): the passing
\* offers, each with its metrics attached, in the order received
RECURSIVE PassingOf(_)
PassingOf(offers) ==
    IF offers = <<>> THEN <<>>
    ELSE LET r == offer_meets_rules(Head(offers))
         IN (IF r.ok THEN <<Head(offers) @@ [metrics |-> r.metrics]>> ELSE <<>>)
              \o PassingOf(Tail(offers))

VARIABLES
    token,      \* Amadeus._token
    attempt,    \* local of _safe_get
    gpc,        \* position of the _safe_get call: calling, returned, raised
    gerr,       \* the exception _safe_get raised
    resps,      \* responses the call received, in order
    sleeps,     \* lengths passed to time.sleep that returned, in order
    posts,      \* number of token POSTs made by the call
    postAt,     \* for each token POST, the number of GETs made before it
    offer,      \* the offer given to offer_meets_rules
    verdict,    \* what offer_meets_rules returned for it
    rpc,        \* position of the evaluation: ready, evaluated
    rank_kind,  \* what is being ranked: offers or combos
    rank_in,    \* the list collected by a phase, in discovery order
    rank_out,   \* the top 3 produced from it
    kpc,        \* position of the ranking: ready, ranked
    env_creds,      \* AMADEUS_CLIENT_ID and AMADEUS_CLIENT_SECRET are set
    env_webhook,    \* DISCORD_WEBHOOK_URL is set
    server,         \* the remote API of the run: steady (every request
                    \* is answered 200) or faulty
    pc,             \* position of the main flow
    error,          \* the exception that ended the process
    pos,            \* position of run_once in its search loops
    gets,           \* GET requests issued by the run
    nsleeps,        \* sleeps taken by the run
    received,       \* offers received by the run
    seen,           \* statuses of the responses received by the run
    last_status,    \* status of the latest response, 0 before the first
    valid_osaka,
    top3_osaka,
    osa_ceb_valid,
    ceb_par_valid,
    valid_cebu_combo,
    top3_cebu,
    out,            \* what run_once returned
    stdout,         \* the documents printed
    webhook_posts,  \* POSTs made to the webhook
    notify,         \* how notify_discord ended
    exit_status     \* running, zero, nonzero

getVars == <<gpc, gerr, resps, sleeps, postAt>>

clientVars == <<token, attempt, posts>>

rulesVars == <<offer, verdict, rpc>>

rankVars == <<rank_kind, rank_in, rank_out, kpc>>

runVars ==
    <<env_creds, env_webhook, server, pc, error, pos, gets, nsleeps, received, seen,
      last_status, valid_osaka, top3_osaka, osa_ceb_valid, ceb_par_valid,
      valid_cebu_combo, top3_cebu, out, stdout, webhook_posts, notify,
      exit_status>>

vars == <<clientVars, getVars, rulesVars, rankVars, runVars>>

\* the parts of the state a specification does not use stay as they are
GetIdle ==
    /\ gpc = "idle"
    /\ gerr = Null
    /\ resps = <<>>
    /\ sleeps = <<>>
    /\ postAt = <<>>

ClientIdle == token = Null /\ attempt = 0 /\ posts = 0

RulesIdle ==
    /\ offer = [itineraries |-> <<>>, travelerPricings |-> <<>>,
                validatingAirlineCodes |-> <<>>]
    /\ verdict = [ok |-> FALSE, metrics |-> ZeroMetrics]
    /\ rpc = "idle"

RankIdle ==
    /\ rank_kind = "idle"
    /\ rank_in = <<>>
    /\ rank_out = <<>>
    /\ kpc = "idle"

NoPos == [phase |-> "none", date |-> 0, leg |-> "none", i |-> 0, j |-> 0]

NoResult == [present |-> FALSE]

RunIdle ==
    /\ env_creds = FALSE
    /\ env_webhook = FALSE
    /\ server = "none"
    /\ pc = "idle"
    /\ error = Null
    /\ pos = NoPos
    /\ gets = 0
    /\ nsleeps = 0
    /\ received = 0
    /\ seen = {}
    /\ last_status = 0
    /\ valid_osaka = <<>>
    /\ top3_osaka = <<>>
    /\ osa_ceb_valid = <<>>
    /\ ceb_par_valid = <<>>
    /\ valid_cebu_combo = <<>>
    /\ top3_cebu = <<>>
    /\ out = NoResult
    /\ stdout = <<>>
    /\ webhook_posts = 0
    /\ notify = "none"
    /\ exit_status = "running"

\* ---- one call of _safe_get with the default max_retries ----

GetInit ==
    /\ token \in {Null, "tokA"}
    /\ attempt = 0
    /\ gpc = "calling"
    /\ gerr = Null
    /\ resps = <<>>
    /\ sleeps = <<>>
    /\ posts = 0
    /\ postAt = <<>>
    /\ RulesIdle
    /\ RankIdle
    /\ RunIdle

\* _headers(): the token POST of _auth when no token is cached.
\* `ans` is the token endpoint's answer, used only when a POST is made.
HeadersToken(ans) == IF TokenMissing(token) THEN ans ELSE token

HeadersPosts == IF TokenMissing(token) THEN posts + 1 ELSE posts

HeadersPostAt ==
    IF TokenMissing(token) THEN Append(postAt, Len(resps)) ELSE postAt

\* _headers() -> _auth(): the token POST is answered with an error status
GetAuthFails ==
    /\ gpc = "calling"
    /\ TokenMissing(token)
    /\ posts < MaxPosts
    /\ posts' = posts + 1
    /\ postAt' = Append(postAt, Len(resps))
    /\ gpc' = "raised"
    /\ gerr' = "HTTPError(auth)"
    /\ UNCHANGED <<token, attempt, resps, sleeps>>
    /\ UNCHANGED <<rulesVars, rankVars, runVars>>

\* one iteration of the while loop: _headers(), the GET, and what follows
GetStep(ans, status, retry_after) ==
    /\ gpc = "calling"
    /\ TokenMissing(token) => posts < MaxPosts
    /\ token' = HeadersToken(ans)
    /\ posts' = HeadersPosts
    /\ postAt' = HeadersPostAt
    /\ resps' = Append(resps, [status |-> status, retry_after |-> retry_after])
    /\ IF status = 429
         THEN /\ attempt' = attempt + 1
              /\ IF RetriesExhausted(attempt + 1, max_retries)
                   THEN /\ gpc' = "raised"
                        /\ gerr' = "HTTPError(429)"
                        /\ sleeps' = sleeps
                   ELSE IF SleepRaises(WaitS(retry_after, attempt + 1))
                   THEN /\ gpc' = "raised"
                        /\ gerr' = "ValueError"
                        /\ sleeps' = sleeps
                   ELSE /\ gpc' = "calling"
                        /\ gerr' = gerr
                        /\ sleeps' = Append(sleeps, WaitS(retry_after, attempt + 1))
         ELSE /\ attempt' = attempt
              /\ sleeps' = sleeps
              /\ IF RaisesForStatus(status)
                   THEN /\ gpc' = "raised"
                        /\ gerr' = IF status = 401 THEN "HTTPError(401)"
                                                   ELSE "HTTPError(500)"
                   ELSE /\ gpc' = "returned"
                        /\ gerr' = gerr
    /\ UNCHANGED <<rulesVars, rankVars, runVars>>

GetRateLimited ==
    \E ans \in AuthAnswers \ {"error"}, ra \in RetryAfters :
        GetStep(ans, 429, ra)

GetAnswered ==
    \E ans \in AuthAnswers \ {"error"}, st \in Statuses \ {429} :
        GetStep(ans, st, [kind |-> "absent"])

GetNext == GetAuthFails \/ GetRateLimited \/ GetAnswered

SpecGet == GetInit /\ [][GetNext]_vars

\* ------------------------------------------------------------------------
\* Properties of _safe_get (checked under SpecGet)
\* ------------------------------------------------------------------------

RECURSIVE SeqSum(_)
SeqSum(s) == IF s = <<>> THEN 0 ELSE Head(s) + SeqSum(Tail(s))

StatusesOf(rs) == [i \in 1..Len(rs) |-> rs[i].status]

AllRateLimited(rs) == \A i \in 1..Len(rs) : rs[i].status = 429

\* C1: _safe_get terminates under rate limiting. Whatever the server
\* answers, a call issues at most max_retries + 1 = 7 GETs and sleeps at
\* most max_retries = 6 times; a call still running has made at most 6
\* rate-limited attempts; and when all 7 answers are 429 the call has
\* given up by raising the HTTP 429 error.
C1_SafeGetTerminates ==
    /\ Len(resps) <= 7
    /\ Len(sleeps) <= 6
    /\ gpc = "calling" => (attempt = Len(resps) /\ attempt <= 6)
    /\ (Len(resps) = 7 /\ AllRateLimited(resps))
          => (gpc = "raised" /\ gerr = "HTTPError(429)" /\ Len(sleeps) = 6)

\* seven 429 answers in a row: six sleeps, then the error is raised
C1_Witness ==
    /\ gpc = "raised"
    /\ gerr = "HTTPError(429)"
    /\ Len(resps) = 7
    /\ Len(sleeps) = 6

\* C2 as stated: a GET answered 401 is followed by a new token POST and
\* one retry of the request before the failure is surfaced.
C2_ReauthAndRetryOn401 ==
    (gpc = "raised" /\ gerr = "HTTPError(401)") =>
        \E i \in 1..Len(resps) :
            /\ resps[i].status = 401
            /\ i < Len(resps)
            /\ \E p \in 1..Len(postAt) : postAt[p] = i

\* C2 as amended: a GET answered 401 surfaces the HTTP error at once, it
\* is the last request of the call and no token POST follows it; a token
\* POST is made only while no token is cached, so a cached token is
\* reused by every later GET without a new token POST.
C2_NoReauthOn401 ==
    /\ [](\A i \in 1..Len(resps) :
            resps[i].status = 401 =>
                /\ i = Len(resps)
                /\ gpc = "raised"
                /\ gerr = "HTTPError(401)"
                /\ \A p \in 1..Len(postAt) : postAt[p] < i)
    /\ [][/\ posts' # posts => token = Null
          /\ token # Null => token' = token]_vars

\* a cached token is rejected with 401 after a rate-limited attempt: the
\* error is raised and no token POST was ever made
C2_Witness ==
    /\ gpc = "raised"
    /\ gerr = "HTTPError(401)"
    /\ token = "tokA"
    /\ posts = 0
    /\ Len(resps) = 2

\* C3 as stated: the sleep after the k-th 429 is the Retry-After value
\* itself whenever the header carries one.
C3_SleepIsRetryAfter ==
    \A k \in 1..Len(sleeps) :
        resps[k].retry_after.kind = "int" => sleeps[k] = resps[k].retry_after.n

\* the capped exponential schedule min(60, 2^k), k = 1..6
BackoffSchedule == <<2, 4, 8, 16, 32, 60>>

ExpectedSleep(ra, k) ==
    IF ra.kind = "int"
        THEN (IF ra.n <= 60 THEN ra.n ELSE 60)
        ELSE BackoffSchedule[k]

\* C3 as amended: the sleep after the k-th consecutive 429 is
\* min(60, Retry-After) when the header is the text of an integer (the
\* ceiling of 60 s applies to the server's value too), and min(60, 2^k)
\* when the header is absent, empty or not an integer; a negative
\* Retry-After on one of the first 6 makes time.sleep raise ValueError,
\* which ends the call.
\* Three 429 then a 200 give one return value and exactly three sleeps:
\* 2 + 4 + 8 = 14 s without Retry-After, the sum of min(60, Retry-After)
\* when every 429 carries a non-negative integer.
C3_SleepSchedule ==
    /\ \A k \in 1..Len(sleeps) :
          /\ resps[k].status = 429
          /\ sleeps[k] = ExpectedSleep(resps[k].retry_after, k)
          /\ sleeps[k] >= 0
    /\ \A k \in 1..Len(resps) :
          (k <= 6 /\ resps[k].status = 429
              /\ resps[k].retry_after.kind = "int"
              /\ resps[k].retry_after.n < 0)
            => (k = Len(resps) /\ gpc = "raised" /\ gerr = "ValueError")
    /\ StatusesOf(resps) = <<429, 429, 429, 200>> =>
          /\ gpc = "returned"
          /\ Len(sleeps) = 3
          /\ (\A k \in 1..3 : resps[k].retry_after.kind = "absent")
                => SeqSum(sleeps) = 14
          /\ (\A k \in 1..3 : resps[k].retry_after.kind = "int")
                => SeqSum(sleeps) =
                     ExpectedSleep(resps[1].retry_after, 1)
                       + ExpectedSleep(resps[2].retry_after, 2)
                       + ExpectedSleep(resps[3].retry_after, 3)

\* 429 with Retry-After 61, 429 without, 429 with Retry-After 7, then 200
C3_Witness ==
    /\ gpc = "returned"
    /\ StatusesOf(resps) = <<429, 429, 429, 200>>
    /\ resps[1].retry_after = [kind |-> "int", n |-> 61]
    /\ resps[2].retry_after = [kind |-> "absent"]
    /\ resps[3].retry_after = [kind |-> "int", n |-> 7]
    /\ sleeps = <<60, 4, 7>>

\* ------------------------------------------------------------------------
\* offer_meets_rules on a bounded family of offers (SpecRules)
\* ------------------------------------------------------------------------

\* itineraries per offer and segments per itinerary
MaxItins == 2

MaxSegs == 3

\* duration texts: PT12H30M, PT12H29M, PT24H59M, PT25H, PT5h45m (lower
\* case units), pt9h (lower case prefix), PT1DT2H (float() rejects "1dt2")
DurationTexts ==
    {<<"P", "T", "1", "2", "H", "3", "0", "M">>,
     <<"P", "T", "1", "2", "H", "2", "9", "M">>,
     <<"P", "T", "2", "4", "H", "5", "9", "M">>,
     <<"P", "T", "2", "5", "H">>,
     <<"P", "T", "5", "h", "4", "5", "m">>,
     <<"p", "t", "9", "h">>,
     <<"P", "T", "1", "D", "T", "2", "H">>}

Segments(n) == [i \in 1..n |-> "seg"]

Itineraries ==
    {[segments |-> Segments(n), has_duration |-> TRUE, duration |-> d] :
        n \in 0..MaxSegs, d \in DurationTexts}
      \cup {[segments |-> Segments(n), has_duration |-> FALSE, duration |-> <<>>] :
              n \in 0..MaxSegs}

SeqsUpTo(S, n) == UNION {[1..k -> S] : k \in 0..n}

NoBagsKey == [is_dict |-> FALSE, has_quantity |-> FALSE, quantity |-> 0]

WeightOnly == [is_dict |-> TRUE, has_quantity |-> FALSE, quantity |-> 0]

Bags(q) == [is_dict |-> TRUE, has_quantity |-> TRUE, quantity |-> q]

\* travelerPricings, each the list of its fareDetailsBySegment's
\* includedCheckedBags
TravelerPricingShapes ==
    {<<>>,
     <<<<Bags(0)>>, <<Bags(0)>>>>,
     <<<<WeightOnly, NoBagsKey>>>>,
     <<<<Bags(0), NoBagsKey>>, <<WeightOnly, Bags(2)>>>>}

CarrierLists == {<<"5J">>, <<"5J", "NH">>}

RulesInit ==
    /\ \E its \in SeqsUpTo(Itineraries, MaxItins),
          tp \in TravelerPricingShapes,
          cs \in CarrierLists :
            offer = [itineraries |-> its, travelerPricings |-> tp,
                     validatingAirlineCodes |-> cs]
    /\ verdict = [ok |-> FALSE, metrics |-> ZeroMetrics]
    /\ rpc = "ready"
    /\ ClientIdle
    /\ GetIdle
    /\ RankIdle
    /\ RunIdle

EvaluateOffer ==
    /\ rpc = "ready"
    /\ verdict' = offer_meets_rules(offer)
    /\ rpc' = "evaluated"
    /\ UNCHANGED <<offer, clientVars, getVars, rankVars, runVars>>

RulesNext == EvaluateOffer

SpecRules == RulesInit /\ [][RulesNext]_vars

\* the quantities of the rule, stated over the offer as a whole
ParsedDurations(o) ==
    [i \in 1..Len(o.itineraries) |->
        parse_duration_hours(DurationOf(o.itineraries[i]))]

AllDurationsParse(o) ==
    \A i \in 1..Len(o.itineraries) : ~ParsedDurations(o)[i].err

ParsedMinutes(o) == [i \in 1..Len(o.itineraries) |-> ParsedDurations(o)[i].v]

AtMostOneStop(o) ==
    \A i \in 1..Len(o.itineraries) : Len(o.itineraries[i].segments) - 1 <= 1

SomeBagQuantity(o) ==
    \E t \in 1..Len(o.travelerPricings) :
        \E f \in 1..Len(o.travelerPricings[t]) :
            /\ o.travelerPricings[t][f].is_dict
            /\ o.travelerPricings[t][f].has_quantity
            /\ o.travelerPricings[t][f].quantity > 0

MaxList == 4

\* price.total of the offers ranked: 600.00 and 650.50, a missing total
\* and a text that is no number (both read as 1e9)
RankPrices ==
    {[kind |-> "num", cents |-> 60000], [kind |-> "num", cents |-> 65050],
     [kind |-> "missing"], [kind |-> "text"]}

\* totals of the combos ranked; a leg without a usable price adds 1e9
RankTotals ==
    {Euros(850), Euros(950), MoneyAdd(Billion, Euros(400)),
     MoneyAdd(Billion, Billion)}

\* lists in discovery order: the id is the position of discovery
RankInit ==
    /\ \E k \in 0..MaxList :
          \/ /\ rank_kind = "offers"
             /\ \E f \in [1..k -> RankPrices] :
                   rank_in = [i \in 1..k |-> [id |-> i, price |-> f[i]]]
          \/ /\ rank_kind = "combos"
             /\ \E f \in [1..k -> RankTotals] :
                   rank_in = [i \in 1..k |-> [id |-> i, total |-> f[i]]]
    /\ rank_out = <<>>
    /\ kpc = "ready"
    /\ ClientIdle
    /\ GetIdle
    /\ RulesIdle
    /\ RunIdle

RankOffers ==
    /\ kpc = "ready"
    /\ rank_kind = "offers"
    /\ rank_out' = pick_top3(rank_in)
    /\ kpc' = "ranked"
    /\ UNCHANGED <<rank_kind, rank_in, clientVars, getVars, rulesVars, runVars>>

RankCombos ==
    /\ kpc = "ready"
    /\ rank_kind = "combos"
    /\ rank_out' = top3_of_combos(rank_in)
    /\ kpc' = "ranked"
    /\ UNCHANGED <<rank_kind, rank_in, clientVars, getVars, rulesVars, runVars>>

RankNext == RankOffers \/ RankCombos

SpecRank == RankInit /\ [][RankNext]_vars

\* the price an element is ranked by
RankKey(x) == IF rank_kind = "offers" THEN get_price(x) ELSE x.total

InTop(x) == \E j \in 1..Len(rank_out) : rank_out[j] = x

\* C9: the top 3 of a collected list has length min(3, count), is sorted
\* ascending by price, holds only elements of the list, none twice; no
\* omitted element is strictly cheaper than an included one; and
\* equal-priced elements keep their discovery order, the earlier
\* discovered one being listed first and being the one kept.
C9_Top3Ranking ==
    kpc = "ranked" =>
        /\ Len(rank_out) = (IF Len(rank_in) < 3 THEN Len(rank_in) ELSE 3)
        /\ \A i, j \in 1..Len(rank_out) :
              i < j => /\ ~MoneyLess(RankKey(rank_out[j]), RankKey(rank_out[i]))
                       /\ rank_out[i] # rank_out[j]
                       /\ RankKey(rank_out[i]) = RankKey(rank_out[j])
                            => rank_out[i].id < rank_out[j].id
        /\ \A j \in 1..Len(rank_out) :
              \E i \in 1..Len(rank_in) : rank_in[i] = rank_out[j]
        /\ \A i \in 1..Len(rank_in) : \A j \in 1..Len(rank_out) :
              ~InTop(rank_in[i]) =>
                  /\ ~MoneyLess(RankKey(rank_in[i]), RankKey(rank_out[j]))
                  /\ RankKey(rank_in[i]) = RankKey(rank_out[j])
                       => rank_out[j].id < rank_in[i].id

\* four offers, the two cheapest of equal price discovered 2nd and 4th, a
\* malformed one discovered first: top 3 is 2nd, 4th, then the 650.50 one
C9_Witness ==
    /\ kpc = "ranked"
    /\ rank_kind = "offers"
    /\ Len(rank_in) = 4
    /\ rank_in[1].price.kind = "missing"
    /\ rank_in[3].price = [kind |-> "num", cents |-> 65050]
    /\ Len(rank_out) = 3
    /\ rank_out[1].id = 2
    /\ rank_out[2].id = 4
    /\ rank_out[3].id = 3
    /\ get_price(rank_out[1]) = get_price(rank_out[2])

\* ------------------------------------------------------------------------
\* The main flow: credentials check, run_once, print, notify_discord
\* (SpecRun)
\* ------------------------------------------------------------------------

\* offers one run receives in all, and 429 answers one run receives in all
MaxOffers == 3

MaxRateLimited == 1

\* duration texts of the offers of a run
PT5H == <<"P", "T", "5", "H">>

PT10H == <<"P", "T", "1", "0", "H">>

PT9H == <<"P", "T", "9", "H">>

PT9H2M == <<"P", "T", "9", "H", "2", "M">>

PT9H4M == <<"P", "T", "9", "H", "4", "M">>

Itin(nsegs, duration) ==
    [segments |-> Segments(nsegs), has_duration |-> TRUE, duration |-> duration]

PriceNum(cents) == [kind |-> "num", cents |-> cents]

OneBag == <<<<Bags(1)>>, <<Bags(1)>>>>

\* a Paris <-> Osaka round trip: two itineraries of one stop each
RoundTrip(id, price, d1, d2, codes) ==
    [id |-> id, price |-> price, currency |-> "EUR",
     itineraries |-> <<Itin(2, d1), Itin(2, d2)>>,
     travelerPricings |-> OneBag,
     validatingAirlineCodes |-> codes]

\* a one-way leg: one direct itinerary
OneWay(id, price, bags) ==
    [id |-> id, price |-> price, currency |-> "EUR",
     itineraries |-> <<Itin(1, PT5H)>>,
     travelerPricings |-> bags,
     validatingAirlineCodes |-> <<"5J">>]

\* direct offers: 600.00 and 650.00 in 20 h; 650.50 in 18 h 02 on a
\* premium carrier; 680.00 in 18 h 02 and in 18 h 04; 700.00 in 20 h on a
\* premium carrier; 700.50 in 18 h 02 on a premium carrier; one without
\* price.total and one whose price.total is no number, both within the
\* rules; and a 500.00 offer with a two-stop itinerary
DirectOffers ==
    {RoundTrip("D600", PriceNum(60000), PT10H, PT10H, <<"5J">>),
     RoundTrip("D650", PriceNum(65000), PT10H, PT10H, <<"5J">>),
     RoundTrip("D650_50", PriceNum(65050), PT9H, PT9H2M, <<"NH">>),
     RoundTrip("D680x", PriceNum(68000), PT9H, PT9H2M, <<"5J">>),
     RoundTrip("D680n", PriceNum(68000), PT9H, PT9H4M, <<"5J">>),
     RoundTrip("D700p", PriceNum(70000), PT10H, PT10H, <<"5J", "NH">>),
     RoundTrip("D700_50", PriceNum(70050), PT9H, PT9H2M, <<"NH">>),
     RoundTrip("Dnone", [kind |-> "missing"], PT10H, PT10H, <<"5J">>),
     RoundTrip("Dtext", [kind |-> "text"], PT10H, PT10H, <<"5J">>),
     [RoundTrip("Dfail", PriceNum(50000), PT10H, PT10H, <<"5J">>)
        EXCEPT !.itineraries = <<Itin(3, PT10H), Itin(2, PT10H)>>]}

\* legs: 400.00, 450.00, 550.00, one without price.total, and a 100.00
\* leg without checked bag
LegOffers ==
    {OneWay("L400", PriceNum(40000), OneBag),
     OneWay("L450", PriceNum(45000), OneBag),
     OneWay("L550", PriceNum(55000), OneBag),
     OneWay("Lnone", [kind |-> "missing"], OneBag),
     OneWay("Lfail", PriceNum(10000), <<<<Bags(0)>>>>)}

ById(S, id) == CHOOSE o \in S : o.id = id

\* the `data` of a successful response: nothing, one offer, or two; a
\* faulty server is given fewer offers to answer with
DirectResponses(srv) ==
    IF srv = "steady"
        THEN {<<>>} \cup {<<o>> : o \in DirectOffers}
                    \cup {<<ById(DirectOffers, "Dfail"), ById(DirectOffers, "D650")>>}
        ELSE {<<>>, <<ById(DirectOffers, "D650")>>, <<ById(DirectOffers, "Dfail")>>}

LegResponses(srv) ==
    IF srv = "steady"
        THEN {<<>>} \cup {<<o>> : o \in LegOffers}
                    \cup {<<ById(LegOffers, "L450"), ById(LegOffers, "L400")>>}
        ELSE {<<>>, <<ById(LegOffers, "L400")>>}

\* Retry-After headers of the 429 answers of a run
RunRetryAfters == {[kind |-> "absent"], [kind |-> "int", n |-> 7]}

\* the dates of the two phases
paris_osaka_pairs == generate_paris_osaka_exact90_pairs

cebu_dates == daterange(April1, April1 + CebuWindowDays - 1)

FirstPosA == [phase |-> "A", date |-> 1, leg |-> "par_osa", i |-> 1, j |-> 1]

FirstPosB == [phase |-> "B", date |-> 1, leg |-> "osa_ceb", i |-> 1, j |-> 1]

EndPos == [phase |-> "end", date |-> 0, leg |-> "none", i |-> 0, j |-> 0]

\* the search that follows the one at q, in the order of the loops of
\* run_once (lines 237-241 and 253-267)
NextPos(q) ==
    IF q.leg = "par_osa"
        THEN IF q.j < Len(OSAKA_AIRPORTS) THEN [q EXCEPT !.j = q.j + 1]
             ELSE IF q.i < Len(PARIS_AIRPORTS) THEN [q EXCEPT !.i = q.i + 1, !.j = 1]
             ELSE IF q.date < Len(paris_osaka_pairs)
                    THEN [q EXCEPT !.date = q.date + 1, !.i = 1, !.j = 1]
             ELSE FirstPosB
    ELSE IF q.leg = "osa_ceb"
        THEN IF q.i < Len(OSAKA_AIRPORTS) THEN [q EXCEPT !.i = q.i + 1]
             ELSE [q EXCEPT !.leg = "ceb_par", !.i = 1]
    ELSE IF q.i < Len(PARIS_AIRPORTS) THEN [q EXCEPT !.i = q.i + 1]
         ELSE IF q.date < Len(cebu_dates)
                THEN [q EXCEPT !.date = q.date + 1, !.leg = "osa_ceb", !.i = 1]
         ELSE EndPos

LastOfPhaseA(q) == q.leg = "par_osa" /\ NextPos(q).phase = "B"

LastOfDate(q) == q.leg = "ceb_par" /\ q.i = Len(PARIS_AIRPORTS)

\* line 249
CompactAll(offers) == [n \in 1..Len(offers) |-> compact(offers[n], offers[n].metrics)]

\* the dictionary run_once returns (line 302)
RunResult(t_osaka, t_cebu) ==
    [present |-> TRUE,
     top3_osaka |-> t_osaka,
     top3_cebu |-> t_cebu,
     alerts |-> [osaka |-> OsakaAlert(t_osaka),
                 cebu_combo |-> ComboAlert(t_cebu, t_osaka)]]

RunInit ==
    /\ env_creds \in BOOLEAN
    /\ env_webhook \in BOOLEAN
    /\ server \in {"steady", "faulty"}
    /\ pc = "start"
    /\ error = Null
    /\ pos = NoPos
    /\ gets = 0
    /\ nsleeps = 0
    /\ received = 0
    /\ seen = {}
    /\ last_status = 0
    /\ valid_osaka = <<>>
    /\ top3_osaka = <<>>
    /\ osa_ceb_valid = <<>>
    /\ ceb_par_valid = <<>>
    /\ valid_cebu_combo = <<>>
    /\ top3_cebu = <<>>
    /\ out = NoResult
    /\ stdout = <<>>
    /\ webhook_posts = 0
    /\ notify = "none"
    /\ exit_status = "running"
    /\ ClientIdle
    /\ GetIdle
    /\ RulesIdle
    /\ RankIdle

searchVars ==
    <<gets, nsleeps, received, seen, last_status, valid_osaka, top3_osaka,
      osa_ceb_valid, ceb_par_valid, valid_cebu_combo, top3_cebu>>

\* lines 333-334: without credentials the process ends before any request
MainFatal ==
    /\ pc = "start"
    /\ ~env_creds
    /\ pc' = "fatal"
    /\ error' = "SystemExit"
    /\ exit_status' = "nonzero"
    /\ UNCHANGED <<env_creds, env_webhook, server, pos, out, stdout, webhook_posts, notify>>
    /\ UNCHANGED <<searchVars, clientVars, getVars, rulesVars, rankVars>>

\* line 335 and lines 231-235: run_once starts, the client has no token
MainRunOnce ==
    /\ pc = "start"
    /\ env_creds
    /\ pc' = "searching"
    /\ pos' = IF Len(paris_osaka_pairs) > 0 THEN FirstPosA ELSE FirstPosB
    /\ token' = Null
    /\ attempt' = 0
    /\ posts' = posts
    /\ UNCHANGED <<env_creds, env_webhook, server, error, out, stdout, webhook_posts,
                   notify, exit_status>>
    /\ UNCHANGED <<searchVars, getVars, rulesVars, rankVars>>

\* an exception leaves run_once and the process
Crash(e) ==
    /\ pc' = "crashed"
    /\ error' = e
    /\ exit_status' = "nonzero"

\* _headers() -> _auth(): the token POST is answered with an error status
SearchAuthFails ==
    /\ pc = "searching"
    /\ server = "faulty"
    /\ TokenMissing(token)
    /\ posts' = posts + 1
    /\ Crash("HTTPError(auth)")
    /\ UNCHANGED <<env_creds, env_webhook, server, pos, out, stdout, webhook_posts, notify>>
    /\ UNCHANGED <<searchVars, token, attempt, getVars, rulesVars, rankVars>>

\* what every GET of a run does first: _headers(), then the request
SearchGet(status) ==
    /\ pc = "searching"
    /\ token' = HeadersToken("tokB")
    /\ posts' = HeadersPosts
    /\ gets' = gets + 1
    /\ seen' = seen \cup {status}
    /\ last_status' = status
    /\ UNCHANGED <<env_creds, env_webhook, server, stdout, webhook_posts, notify>>
    /\ UNCHANGED <<getVars, rulesVars, rankVars>>

\* the GET is answered 429 (lines 141-151)
SearchRateLimited ==
    \E ra \in RunRetryAfters :
        /\ server = "faulty"
        /\ nsleeps < MaxRateLimited
        /\ SearchGet(429)
        /\ attempt' = attempt + 1
        /\ IF RetriesExhausted(attempt + 1, max_retries)
             THEN Crash("HTTPError(429)") /\ nsleeps' = nsleeps
             ELSE IF SleepRaises(WaitS(ra, attempt + 1))
             THEN Crash("ValueError") /\ nsleeps' = nsleeps
             ELSE /\ nsleeps' = nsleeps + 1
                  /\ UNCHANGED <<pc, error, exit_status>>
        /\ UNCHANGED <<pos, out, received, valid_osaka, top3_osaka, osa_ceb_valid,
                       ceb_par_valid, valid_cebu_combo, top3_cebu>>

\* the results of run_once once the last search of phase B is done
\* (lines 285-302): the top 3 of the combos, then the alerts
Finish(t_osaka, combos) ==
    LET t_cebu == top3_of_combos(combos)
    IN /\ top3_cebu' = t_cebu
       /\ pos' = EndPos
       /\ IF AlertsError(t_osaka) # Null
            THEN Crash(AlertsError(t_osaka)) /\ out' = out
            ELSE /\ pc' = "returned"
                 /\ out' = RunResult(t_osaka, t_cebu)
                 /\ UNCHANGED <<error, exit_status>>

\* search_offers returns `data` (line 134): its offers are evaluated and
\* the loops of run_once go on to the next GET, or to the end of run_once
SearchData(data) ==
    /\ received + Len(data) <= MaxOffers
    /\ received' = received + Len(data)
    /\ attempt' = 0
    /\ LET passing == PassingOf(data)
       IN IF pos.leg = "par_osa"
            THEN /\ valid_osaka' = valid_osaka \o passing
                 /\ top3_osaka' = IF LastOfPhaseA(pos)
                                    THEN CompactAll(pick_top3(valid_osaka \o passing))
                                    ELSE top3_osaka
                 /\ pos' = NextPos(pos)
                 /\ UNCHANGED <<osa_ceb_valid, ceb_par_valid, valid_cebu_combo,
                                top3_cebu, pc, out, error, exit_status>>
          ELSE IF pos.leg = "osa_ceb"
            THEN /\ osa_ceb_valid' = osa_ceb_valid \o passing
                 /\ pos' = NextPos(pos)
                 /\ UNCHANGED <<valid_osaka, top3_osaka, ceb_par_valid,
                                valid_cebu_combo, top3_cebu, pc, out, error,
                                exit_status>>
          ELSE IF ~LastOfDate(pos)
            THEN /\ ceb_par_valid' = ceb_par_valid \o passing
                 /\ pos' = NextPos(pos)
                 /\ UNCHANGED <<valid_osaka, top3_osaka, osa_ceb_valid,
                                valid_cebu_combo, top3_cebu, pc, out, error,
                                exit_status>>
          ELSE LET bs == ceb_par_valid \o passing
                   d_osaceb == cebu_dates[pos.date]
                   combos == valid_cebu_combo
                               \o Combos(osa_ceb_valid, bs, d_osaceb, d_osaceb + 14)
               IN /\ valid_cebu_combo' = combos
                  /\ UNCHANGED <<valid_osaka, top3_osaka>>
                  /\ IF NextPos(pos) = EndPos
                       THEN /\ ceb_par_valid' = bs
                            /\ osa_ceb_valid' = osa_ceb_valid
                            /\ Finish(top3_osaka, combos)
                       ELSE /\ ceb_par_valid' = <<>>
                            /\ osa_ceb_valid' = <<>>
                            /\ pos' = NextPos(pos)
                            /\ UNCHANGED <<top3_cebu, pc, out, error, exit_status>>

\* the GET is answered with a status other than 429 (lines 152-153):
\* raise_for_status raises, or the response is returned to run_once
SearchResponse(status, data) ==
    /\ SearchGet(status)
    /\ nsleeps' = nsleeps
    /\ IF RaisesForStatus(status)
         THEN /\ Crash(IF status = 401 THEN "HTTPError(401)" ELSE "HTTPError(500)")
              /\ UNCHANGED <<pos, out, received, attempt, valid_osaka, top3_osaka,
                             osa_ceb_valid, ceb_par_valid, valid_cebu_combo,
                             top3_cebu>>
         ELSE SearchData(data)

\* a Paris <-> Osaka search is answered 200
SearchDirectOk ==
    \E data \in DirectResponses(server) :
        pos.leg = "par_osa" /\ SearchResponse(200, data)

\* an Osaka -> Cebu or Cebu -> Paris search is answered 200
SearchLegOk ==
    \E data \in LegResponses(server) :
        pos.leg \in {"osa_ceb", "ceb_par"} /\ SearchResponse(200, data)

\* a search is answered 401 or 500; the body of an error holds no data
SearchFails ==
    \E status \in {401, 500} :
        server = "faulty" /\ SearchResponse(status, <<>>)

\* line 336
PrintResult ==
    /\ pc = "returned"
    /\ stdout' = Append(stdout, out)
    /\ pc' = "printed"
    /\ UNCHANGED <<env_creds, env_webhook, server, error, pos, out, webhook_posts, notify,
                   exit_status>>
    /\ UNCHANGED <<searchVars, clientVars, getVars, rulesVars, rankVars>>

\* notify_discord without DISCORD_WEBHOOK_URL (lines 308-310)
NotifySkipped ==
    /\ pc = "printed"
    /\ ~env_webhook
    /\ notify' = "skipped"
    /\ pc' = "exited"
    /\ exit_status' = "zero"
    /\ UNCHANGED <<env_creds, env_webhook, server, error, pos, out, stdout, webhook_posts>>
    /\ UNCHANGED <<searchVars, clientVars, getVars, rulesVars, rankVars>>

\* the message of notify_discord indexes these keys of the payload (lines
\* 312-325); a missing one raises KeyError before the POST
ContentKeysPresent(payload) ==
    /\ \A n \in 1..Len(payload.top3_osaka) :
          {"price", "currency", "carriers", "hours", "stops", "bag_included"}
              \subseteq DOMAIN payload.top3_osaka[n]
    /\ \A n \in 1..Len(payload.top3_cebu) :
          /\ {"total", "currency", "dates"} \subseteq DOMAIN payload.top3_cebu[n]
          /\ {"osa_ceb", "ceb_par"} \subseteq DOMAIN payload.top3_cebu[n].dates
    /\ payload.alerts.osaka.fired =>
          /\ {"reason", "best"} \subseteq DOMAIN payload.alerts.osaka
          /\ {"price", "currency"} \subseteq DOMAIN payload.alerts.osaka.best
    /\ payload.alerts.cebu_combo.fired =>
          /\ {"best", "vs_ref"} \subseteq DOMAIN payload.alerts.cebu_combo
          /\ "total" \in DOMAIN payload.alerts.cebu_combo.best

\* notify_discord with a webhook (lines 311-329): the message is built,
\* then the POST is made; `raises` tells whether the POST raises
NotifyPost(raises) ==
    /\ pc = "printed"
    /\ env_webhook
    /\ IF ~ContentKeysPresent(out)
         THEN /\ Crash("KeyError")
              /\ UNCHANGED <<webhook_posts, notify>>
         ELSE /\ webhook_posts' = webhook_posts + 1
              /\ notify' = IF raises THEN "failed" ELSE "delivered"
              /\ IF raises /\ ~PostFailureCaught
                   THEN Crash("RequestException")
                   ELSE /\ pc' = "exited"
                        /\ exit_status' = "zero"
                        /\ error' = error
    /\ UNCHANGED <<env_creds, env_webhook, server, pos, out, stdout>>
    /\ UNCHANGED <<searchVars, clientVars, getVars, rulesVars, rankVars>>

\* the webhook POST returns (line 327)
NotifyDelivered == NotifyPost(FALSE)

\* the webhook POST raises (lines 326-329)
NotifyFailed == NotifyPost(TRUE)

RunNext ==
    \/ MainFatal
    \/ MainRunOnce
    \/ SearchAuthFails
    \/ SearchRateLimited
    \/ SearchDirectOk
    \/ SearchLegOk
    \/ SearchFails
    \/ PrintResult
    \/ NotifySkipped
    \/ NotifyDelivered
    \/ NotifyFailed

SpecRun == RunInit /\ [][RunNext]_vars

\* ------------------------------------------------------------------------
\* Properties of the main flow (checked under SpecRun)
\* ------------------------------------------------------------------------

PermanentErrors == {401, 500}

\* C4: a search answered with a non-success status other than 429, in
\* phase A or phase B, ends the run at once: that request is one GET with
\* no sleep, the HTTP error leaves the process, and afterwards no request
\* is issued, no sleep is taken, and no RunResult exists: nothing is
\* returned, printed or sent to the webhook.
C4_FailFast ==
    /\ [](last_status \in PermanentErrors =>
            /\ pc = "crashed"
            /\ error = (IF last_status = 401 THEN "HTTPError(401)"
                                             ELSE "HTTPError(500)")
            /\ exit_status = "nonzero"
            /\ out = NoResult
            /\ stdout = <<>>
            /\ webhook_posts = 0
            /\ notify = "none")
    /\ [][(last_status' \in PermanentErrors /\ last_status' # last_status) =>
            (gets' = gets + 1 /\ nsleeps' = nsleeps /\ pos' = pos)]_vars
    /\ [][(last_status \in PermanentErrors) =>
            (UNCHANGED <<gets, nsleeps, pos, posts, out, stdout, webhook_posts>>)]_vars

\* a phase B search is answered 500 after a direct offer was ranked and a
\* rate-limited request was retried
C4_Witness ==
    /\ pc = "crashed"
    /\ last_status = 500
    /\ pos.phase = "B"
    /\ top3_osaka # <<>>
    /\ nsleeps = 1
    /\ out = NoResult

\* C5 as stated: with credentials and every search answered with a
\* success, run_once completes whatever the offers contain, so the process
\* never ends on an exception.
C5_SuccessMeansCompletion ==
    (env_creds /\ seen \subseteq {200} /\ error # "HTTPError(auth)")
        => pc # "crashed"

\* the price of a compacted offer as a number of cents
CentsOf(x) == x.price.cents

\* C7: when run_once returns, alerts.osaka is set exactly when the direct
\* top 3 is not empty and the price p of its first offer, the cheapest
\* passing direct offer, is <= 650.00, or 651.00 <= p <= 700.00 with that
\* compacted offer's hours in [15.0, 18.0] or its premium flag set; the
\* reason tells which; in every other case it is null.
C7_OsakaAlert ==
    out.present =>
        LET t == out.top3_osaka
            a == out.alerts.osaka
        IN /\ t = top3_osaka
           /\ t # <<>> =>
                /\ t[1].price.kind = "num"
                /\ \A n \in 1..Len(valid_osaka) :
                      ~MoneyLess(get_price(valid_osaka[n]), Money(0, CentsOf(t[1])))
           /\ a.fired <=>
                /\ t # <<>>
                /\ \/ CentsOf(t[1]) <= 65000
                   \/ /\ 65100 <= CentsOf(t[1])
                      /\ CentsOf(t[1]) <= 70000
                      /\ \/ (150 <= t[1].hours /\ t[1].hours <= 180)
                         \/ t[1].premium
           /\ a.fired =>
                /\ a.best = t[1]
                /\ a.reason = (IF CentsOf(t[1]) <= 65000 THEN "<=650"
                                                        ELSE "651-700 exceptionnel")

\* the cheapest direct offer costs 680.00, is not premium, and its 18 h 02
\* read 18.0 once compacted: the alert is the exceptional one
C7_Witness ==
    /\ out.present
    /\ out.alerts.osaka.fired
    /\ out.alerts.osaka.reason = "651-700 exceptionnel"
    /\ out.alerts.osaka.best.price = PriceNum(68000)
    /\ out.alerts.osaka.best.hours = 180
    /\ ~out.alerts.osaka.best.premium

\* get_price of a compacted leg
LegPrice(x) == IF x.price.kind = "num" THEN Money(0, x.price.cents) ELSE Billion

\* C8: when run_once returns, alerts.cebu_combo is set exactly when both
\* top 3 are not empty and the total of the first combo, the cheapest, is
\* strictly less than the first direct offer's price plus 300.00; every
\* listed combo's total is price(leg A) + price(leg B) of two legs within
\* the rules.
C8_ComboAlert ==
    out.present =>
        LET t == out.top3_osaka
            c == out.top3_cebu
            a == out.alerts.cebu_combo
        IN /\ c = top3_cebu
           /\ a.fired <=>
                /\ t # <<>>
                /\ c # <<>>
                /\ c[1].total.e9 = 0
                /\ c[1].total.c < CentsOf(t[1]) + 30000
           /\ a.fired =>
                /\ a.best = c[1]
                /\ a.vs_ref = Money(0, CentsOf(t[1]) + 30000)
           /\ \A n \in 1..Len(valid_cebu_combo) :
                c # <<>> /\ ~MoneyLess(valid_cebu_combo[n].total, c[1].total)
           /\ \A n \in 1..Len(c) :
                /\ c[n].total = MoneyAdd(LegPrice(c[n].osa_ceb), LegPrice(c[n].ceb_par))
                /\ c[n].dates.ceb_par = c[n].dates.osa_ceb + 14
                /\ \A leg \in {c[n].osa_ceb, c[n].ceb_par} :
                      leg.stops <= 1 /\ leg.hours < 250 /\ leg.bag_included

\* direct 600.00 and cheapest combo 400.00 + 450.00 = 850.00 < 900.00
C8_Witness ==
    /\ out.present
    /\ out.alerts.cebu_combo.fired
    /\ out.top3_osaka[1].price = PriceNum(60000)
    /\ out.top3_cebu[1].total = Euros(850)
    /\ out.alerts.cebu_combo.vs_ref = Euros(900)

\* C10: the webhook POST is made only after the result was printed and
\* only with a webhook URL; when it raises, the failure stays inside
\* notify_discord: the process ends with status zero, no exception, and
\* the printed document is the result of run_once, unchanged.
C10_NotifyBestEffort ==
    /\ webhook_posts > 0 =>
          (env_webhook /\ out.present /\ stdout = <<out>> /\ webhook_posts = 1)
    /\ ~env_webhook => (webhook_posts = 0 /\ notify \in {"none", "skipped"})
    /\ pc = "crashed" => notify = "none"
    /\ notify # "none" =>
          /\ pc = "exited"
          /\ exit_status = "zero"
          /\ error = Null
          /\ stdout = <<out>>
    /\ pc = "printed" => ContentKeysPresent(out)

\* the webhook POST of a result with both alerts raises; the run ends well
C10_Witness ==
    /\ notify = "failed"
    /\ pc = "exited"
    /\ exit_status = "zero"
    /\ webhook_posts = 1
    /\ stdout = <<out>>
    /\ out.alerts.osaka.fired
    /\ out.alerts.cebu_combo.fired

====
